---------------------------- MODULE Spec2Model ----------------------------
(***************************************************************************)
(* Model of the webview surface code of bevy-tao-experiment:               *)
(*   src/src/bad_render.rs  the surface manager draft (extract,            *)
(*                          prepare_webview, configure_surface,            *)
(*                          reconfigure_surface)                           *)
(*   src/src/render.rs      the simplified draft (extract,                 *)
(*                          prepare_webview, WebviewNode::run)             *)
(* The two drafts are two builds of the same subsystem; each has its own   *)
(* specification (SpecBad, SpecRender) over the same variables.            *)
(*                                                                         *)
(* Reading of the names bad_render.rs leaves unbound:                      *)
(*  - `surface_configuration` at line 204 is the value bound to that name  *)
(*    at line 111, i.e. the configuration built and applied at creation    *)
(*    (the last configuration applied to the surface);                     *)
(*  - `set_swapchain_texture(frame)` (lines 170, 201, 208) stores the      *)
(*    frame in WebviewSurface.texture, the only texture slot of the file;  *)
(*  - configure_surface yields WebviewSurface{surface, texture, format}.   *)
(***************************************************************************)
EXTENDS Naturals, Sequences, FiniteSets

VARIABLES
    target_os,        \* cfg(target_os) of the build
    render_adapter,   \* name of the adapter in use (Res<RenderAdapter>)
    frame,            \* number of the current frame (0 before the first)
    phase,            \* last phase completed: "init", "extract", "prepare", "draw"
    extracted,        \* Option<Res<ExtractedWebviewHandles>> of the render world
    webview_surface,  \* Option<WebviewSurface>: Local (bad_render.rs) / resource (render.rs)
    panicked,         \* the process stopped on a panic (expect / unwrap / panic!)
    created,          \* number of native surfaces created so far
    log,              \* native calls made by the latest prepare_webview, in order
    pipeline_ready,   \* PipelineCache::get_render_pipeline returns Some
    views_left,       \* views the render graph still has to run the node for
    drawn             \* the draws made: [view, frame], view drawn to in frame

vars == <<target_os, render_adapter, frame, phase, extracted,
          webview_surface, panicked, created, log, pipeline_ready,
          views_left, drawn>>

-----------------------------------------------------------------------------
(* Bounds *)

MaxFrames == 3
MaxWindows == 2
MaxAdapters == 2
MaxCaps == 2
MaxViews == 2

-----------------------------------------------------------------------------
(* Option<T> as a sequence of length at most one *)

None == <<>>

Some(x) == <<x>>

Unwrap(o) == o[1]

Option(S) == {None} \cup {Some(x) : x \in S}

-----------------------------------------------------------------------------
(* Value domains *)

\* The raw handle of the webview window (WebviewRawHandles, published once)
Handles == {"h1"}

\* bevy::window::PresentMode and CompositeAlphaMode
PresentModes == {"Fifo", "Mailbox", "Immediate", "AutoVsync", "AutoNoVsync"}

CompositeAlphaModes == {"Auto", "Opaque", "PreMultiplied", "PostMultiplied", "Inherit"}

WindowData(w, h, a, p) ==
    [physical_width |-> w, physical_height |-> h, alpha_mode |-> a, present_mode |-> p]

\* Live primary windows the main world can show at extraction: sizes include
\* a zero dimension (minimized), every mode occurs at least once.
Windows ==
    { WindowData(800, 600, "Opaque", "Fifo"),
      WindowData(1024, 768, "Opaque", "Fifo"),
      WindowData(0, 600, "Opaque", "Fifo"),
      WindowData(800, 0, "Auto", "Mailbox"),
      WindowData(800, 600, "PreMultiplied", "Immediate"),
      WindowData(800, 600, "PostMultiplied", "AutoVsync"),
      WindowData(800, 600, "Inherit", "AutoNoVsync") }

\* The entities Query<&Window, With<PrimaryWindow>> matches: none, one, or
\* several (get_single is Ok for exactly one; the others' contents are not read)
PrimaryWindows == { [i \in 1..n |-> w] : n \in 0..MaxWindows, w \in Windows }

TextureFormats == {"Rgba8UnormSrgb", "Bgra8UnormSrgb", "Rgba8Unorm", "Bgra8Unorm", "Rgba16Float"}

\* Sequences over S of length at most n, without repetition
Lists(S, n) ==
    UNION { { l \in [1..k -> S] : \A i \in 1..k, j \in 1..k : l[i] = l[j] => i = j }
            : k \in 0..n }

\* caps.formats: ordered, possibly empty
Capabilities == Lists(TextureFormats, MaxCaps)

\* Outcomes of Surface::get_current_texture: Ok or a wgpu::SurfaceError
SurfaceErrors == {"Timeout", "Outdated", "Lost", "OutOfMemory"}

AcquireResults == {"Ok"} \cup SurfaceErrors

TargetOs == {"linux", "windows"}

\* Adapter names, as character sequences
AdapterNames ==
    { <<"A", "M", "D", " ", "R", "X">>,
      <<"I", "n", "t", "e", "l", "(", "R", ")">>,
      <<"N", "V", "I", "D", "I", "A">>,
      <<"A", "M">> }

\* Names the adapter in use can have
RenderAdapterNames == {<<"N", "V", "I", "D", "I", "A">>, <<"A", "M", "D", " ", "R", "X">>}

\* What enumerate_adapters(Backends::VULKAN) can return
AdapterLists == Lists(AdapterNames, MaxAdapters)

-----------------------------------------------------------------------------
(* Pure helpers of configure_surface *)

\* TextureFormat::is_srgb
is_srgb(format) == format \in {"Rgba8UnormSrgb", "Bgra8UnormSrgb"}

\* TextureFormat::add_srgb_suffix: the sRGB variant where one exists, else self
add_srgb_suffix(format) ==
    CASE format = "Rgba8Unorm" -> "Rgba8UnormSrgb"
      [] format = "Bgra8Unorm" -> "Bgra8UnormSrgb"
      [] OTHER -> format

\* bad_render.rs 116-122
present_mode_of(p) ==
    CASE p = "Fifo" -> "wgpu::PresentMode::Fifo"
      [] p = "Mailbox" -> "wgpu::PresentMode::Mailbox"
      [] p = "Immediate" -> "wgpu::PresentMode::Immediate"
      [] p = "AutoVsync" -> "wgpu::PresentMode::AutoVsync"
      [] p = "AutoNoVsync" -> "wgpu::PresentMode::AutoNoVsync"

\* bad_render.rs 123-129
alpha_mode_of(a) ==
    CASE a = "Auto" -> "wgpu::CompositeAlphaMode::Auto"
      [] a = "Opaque" -> "wgpu::CompositeAlphaMode::Opaque"
      [] a = "PreMultiplied" -> "wgpu::CompositeAlphaMode::PreMultiplied"
      [] a = "PostMultiplied" -> "wgpu::CompositeAlphaMode::PostMultiplied"
      [] a = "Inherit" -> "wgpu::CompositeAlphaMode::Inherit"

\* bad_render.rs 102-110: index of the first sRGB entry at or after i, 0 if none
RECURSIVE first_srgb(_, _)
first_srgb(formats, i) ==
    IF i > Len(formats) THEN 0
    ELSE IF formats[i] = "Rgba8UnormSrgb" \/ formats[i] = "Bgra8UnormSrgb" THEN i
    ELSE first_srgb(formats, i + 1)

\* negotiate_format with the loop's break lost: the last sRGB entry wins
negotiate_format_last_match(formats) ==
    LET hits == {i \in 1..Len(formats) :
                    formats[i] = "Rgba8UnormSrgb" \/ formats[i] = "Bgra8UnormSrgb"}
    IN IF Len(formats) = 0 THEN None
       ELSE IF hits # {}
       THEN Some(formats[CHOOSE i \in hits : \A j \in hits : j <= i])
       ELSE Some(formats[1])

\* negotiate_format with a format made up for an empty capability set
negotiate_format_or_default(formats) ==
    IF Len(formats) = 0 THEN Some("Bgra8UnormSrgb")
    ELSE IF first_srgb(formats, 1) # 0 THEN Some(formats[first_srgb(formats, 1)])
    ELSE Some(formats[1])

\* bad_render.rs 101-110: None when formats.get(0) is None (the expect panics)
negotiate_format(formats) ==
    IF Len(formats) = 0 THEN None
    ELSE IF first_srgb(formats, 1) # 0 THEN Some(formats[first_srgb(formats, 1)])
    ELSE Some(formats[1])

\* bad_render.rs 111-135
surface_configuration(format, window) ==
    [ format |-> format,
      width |-> window.physical_width,
      height |-> window.physical_height,
      usage |-> "RENDER_ATTACHMENT",
      present_mode |-> present_mode_of(window.present_mode),
      alpha_mode |-> alpha_mode_of(window.alpha_mode),
      view_formats |-> IF ~is_srgb(format) THEN <<add_srgb_suffix(format)>> ELSE <<>> ]

-----------------------------------------------------------------------------
(* Native calls, as recorded in log *)

CreateSurface(handle) == [op |-> "create_surface", handle |-> handle]

GetCapabilities(formats) == [op |-> "get_capabilities", formats |-> formats]

ConfigureSurface(config) == [op |-> "configure_surface", config |-> config]

GetCurrentTexture(result) == [op |-> "get_current_texture", result |-> result]

EnumerateAdapters(names) == [op |-> "enumerate_adapters", names |-> names]

-----------------------------------------------------------------------------
(* bad_render.rs: the surface manager *)

\* str::starts_with
starts_with(name, prefix) ==
    /\ Len(name) >= Len(prefix)
    /\ SubSeq(name, 1, Len(prefix)) = prefix

\* may_erroneously_timeout with the cfg(target_os = "linux") gate lost
may_erroneously_timeout_any_os(names) ==
    \E i \in 1..Len(names) :
       \/ starts_with(names[i], <<"A", "M", "D">>)
       \/ starts_with(names[i], <<"I", "n", "t", "e", "l">>)

\* bad_render.rs 187-195: the closure exists on linux builds only
may_erroneously_timeout(names) ==
    /\ target_os = "linux"
    /\ \E i \in 1..Len(names) :
          \/ starts_with(names[i], <<"A", "M", "D">>)
          \/ starts_with(names[i], <<"I", "n", "t", "e", "l">>)

\* The outcome of a call: the WebviewSurface it leaves (an Option where the
\* caller gets none on a panic), whether it panicked, the native calls made.
Outcome(wvs, panic, calls) == [wvs |-> wvs, panicked |-> panic, log |-> calls]

\* bad_render.rs 89-172. surface: the new native surface; formats: what
\* get_capabilities returns; r: the outcome of get_current_texture; tex: the
\* texture it yields when Ok.
configure_surface(surface, window, formats, r, tex) ==
    LET format == negotiate_format(formats) IN
    IF format = None
    THEN Outcome(None, TRUE, <<GetCapabilities(formats)>>)
    ELSE LET config == surface_configuration(Unwrap(format), window)
             calls == <<GetCapabilities(formats), ConfigureSurface(config),
                        GetCurrentTexture(r)>>
         IN IF r = "Ok"
            THEN Outcome(Some([surface |-> [surface EXCEPT !.config = Some(config)],
                               texture |-> tex,
                               format |-> Unwrap(format)]),
                         FALSE, calls)
            ELSE Outcome(None, TRUE, calls)

\* on_ok with the surface configured anew before every acquisition
on_ok_configures(wvs, tex) ==
    Outcome([wvs EXCEPT !.texture = tex], FALSE,
            <<GetCurrentTexture("Ok"), ConfigureSurface(Unwrap(wvs.surface.config)),
              GetCurrentTexture("Ok")>>)

\* bad_render.rs 200-202, the Ok arm: the frame is stored
on_ok(wvs, tex) ==
    Outcome([wvs EXCEPT !.texture = tex], FALSE, <<GetCurrentTexture("Ok")>>)

\* on_outdated with the configure call lost: acquisition is retried at once
on_outdated_no_configure(wvs, r2, tex) ==
    LET calls == <<GetCurrentTexture("Outdated"), GetCurrentTexture(r2)>>
    IN IF r2 = "Ok"
       THEN Outcome([wvs EXCEPT !.texture = tex], FALSE, calls)
       ELSE Outcome(wvs, TRUE, calls)

\* on_outdated turned into a loop: a retry that is Outdated again is retried
on_outdated_retries_again(wvs, r2, tex) ==
    LET config == Unwrap(wvs.surface.config)
        calls == <<GetCurrentTexture("Outdated"), ConfigureSurface(config),
                   GetCurrentTexture(r2)>>
    IN IF r2 = "Ok"
       THEN Outcome([wvs EXCEPT !.texture = tex], FALSE, calls)
       ELSE IF r2 = "Outdated"
       THEN Outcome([wvs EXCEPT !.texture = tex], FALSE,
                    calls \o <<ConfigureSurface(config), GetCurrentTexture("Ok")>>)
       ELSE Outcome(wvs, TRUE, calls)

\* on_outdated with the recorded format reset to the fixed Rgba8UnormSrgb of
\* render.rs 91 when the texture of the retry is stored
on_outdated_resets_format(wvs, r2, tex) ==
    LET config == Unwrap(wvs.surface.config)
        calls == <<GetCurrentTexture("Outdated"), ConfigureSurface(config),
                   GetCurrentTexture(r2)>>
    IN IF r2 = "Ok"
       THEN Outcome([wvs EXCEPT !.texture = tex, !.format = "Rgba8UnormSrgb"],
                    FALSE, calls)
       ELSE Outcome(wvs, TRUE, calls)

\* on_outdated with the error of the retry dropped instead of raised
on_outdated_drops_error(wvs, r2, tex) ==
    LET config == Unwrap(wvs.surface.config)
        calls == <<GetCurrentTexture("Outdated"), ConfigureSurface(config),
                   GetCurrentTexture(r2)>>
    IN IF r2 = "Ok"
       THEN Outcome([wvs EXCEPT !.texture = tex], FALSE, calls)
       ELSE Outcome(wvs, FALSE, calls)

\* bad_render.rs 203-209, the Outdated arm: `surface_configuration` is applied
\* and acquisition retried; r2: the outcome of the retry (expect panics on Err)
on_outdated(wvs, r2, tex) ==
    LET config == Unwrap(wvs.surface.config)
        calls == <<GetCurrentTexture("Outdated"), ConfigureSurface(config),
                   GetCurrentTexture(r2)>>
    IN IF r2 = "Ok"
       THEN Outcome([wvs EXCEPT !.texture = tex, !.surface.config = Some(config)],
                    FALSE, calls)
       ELSE Outcome(wvs, TRUE, calls)

\* reconfigure_surface with the condition left as a comment at bad_render.rs
\* 197-198 in force: a snapshot that differs from the configuration of the
\* surface is applied before the acquisition
reconfigure_surface_when_changed(wvs, window, r1, r2, names, tex) ==
    LET guard_calls == IF r1 = "Timeout" /\ target_os = "linux"
                       THEN <<EnumerateAdapters(names)>> ELSE <<>>
        new_config == surface_configuration(wvs.format, window)
        out == CASE r1 = "Ok" -> on_ok(wvs, tex)
                 [] r1 = "Outdated" -> on_outdated(wvs, r2, tex)
                 [] r1 = "Timeout" /\ may_erroneously_timeout(names) ->
                       Outcome(wvs, FALSE, <<GetCurrentTexture(r1)>> \o guard_calls)
                 [] OTHER ->
                       Outcome(wvs, TRUE, <<GetCurrentTexture(r1)>> \o guard_calls)
    IN IF Some(new_config) # wvs.surface.config
       THEN [out EXCEPT !.log = <<ConfigureSurface(new_config)>> \o @]
       ELSE out

\* bad_render.rs 173-221. wvs: the existing WebviewSurface; r1, r2: the
\* outcomes of the first and (if made) second get_current_texture; names:
\* what enumerate_adapters returns if called; tex: the texture an Ok yields.
\* The Timeout arm (210-216) exists on linux builds only and its guard calls
\* the closure; every other error reaches the panic! of 217-219.
reconfigure_surface(wvs, window, r1, r2, names, tex) ==
    LET guard_calls == IF r1 = "Timeout" /\ target_os = "linux"
                       THEN <<EnumerateAdapters(names)>> ELSE <<>>
    IN CASE r1 = "Ok" -> on_ok(wvs, tex)
         [] r1 = "Outdated" -> on_outdated(wvs, r2, tex)
         [] r1 = "Timeout" /\ may_erroneously_timeout(names) ->
               Outcome(wvs, FALSE, <<GetCurrentTexture(r1)>> \o guard_calls)
         [] OTHER ->
               Outcome(wvs, TRUE, <<GetCurrentTexture(r1)>> \o guard_calls)

\* extract with the resource removed when the handle or the single primary
\* window is missing
extract_or_remove(handles, primary_window) ==
    IF handles # None /\ Len(primary_window) = 1
    THEN Some([handle |-> Unwrap(handles), window_data |-> primary_window[1]])
    ELSE None

\* bad_render.rs 29-45 (the same code as render.rs 42-58): the resource the
\* render world holds after extraction
extract(handles, primary_window) ==
    IF handles # None /\ Len(primary_window) = 1
    THEN Some([handle |-> Unwrap(handles), window_data |-> primary_window[1]])
    ELSE extracted

\* bad_render.rs 29-45, run in the extraction phase that opens a frame
bad_render_extract ==
    /\ ~panicked
    /\ phase \in {"init", "prepare"}
    /\ frame < MaxFrames
    /\ \E handles \in Option(Handles), primary_window \in PrimaryWindows :
          extracted' = extract(handles, primary_window)
    /\ frame' = frame + 1
    /\ phase' = "extract"
    /\ UNCHANGED <<target_os, render_adapter, webview_surface, panicked, created,
                   log, pipeline_ready, views_left, drawn>>

\* bad_render.rs 53-88
bad_render_prepare_webview ==
    /\ ~panicked
    /\ phase = "extract"
    /\ phase' = "prepare"
    /\ IF extracted = None
       THEN /\ log' = <<>>
            /\ UNCHANGED <<webview_surface, panicked, created>>
       ELSE LET webview == Unwrap(extracted) IN
            IF webview_surface # None
            THEN \E r1 \in AcquireResults :
                 \E r2 \in (IF r1 = "Outdated" THEN AcquireResults ELSE {"Ok"}) :
                 \E names \in (IF r1 = "Timeout" THEN AdapterLists ELSE {<<>>}) :
                    LET out == reconfigure_surface(Unwrap(webview_surface),
                                   webview.window_data, r1, r2, names, frame)
                    IN /\ webview_surface' = Some(out.wvs)
                       /\ panicked' = out.panicked
                       /\ log' = out.log
                       /\ UNCHANGED created
            ELSE \E formats \in Capabilities, r \in AcquireResults :
                    LET surface == [handle |-> webview.handle, config |-> None]
                        out == configure_surface(surface, webview.window_data,
                                                 formats, r, frame)
                    IN /\ webview_surface' = out.wvs
                       /\ panicked' = out.panicked
                       /\ log' = <<CreateSurface(webview.handle)>> \o out.log
                       /\ created' = created + 1
    /\ UNCHANGED <<target_os, render_adapter, frame, extracted, pipeline_ready,
                   views_left, drawn>>

-----------------------------------------------------------------------------
(* render.rs: the simplified draft *)

\* render.rs 42-58, scheduled in ExtractSchedule (render.rs 102)
render_extract ==
    /\ ~panicked
    /\ \/ phase = "init"
       \/ phase \in {"prepare", "draw"} /\ views_left = 0
    /\ frame < MaxFrames
    /\ \E handles \in Option(Handles), primary_window \in PrimaryWindows :
          extracted' = extract(handles, primary_window)
    /\ frame' = frame + 1
    /\ phase' = "extract"
    /\ UNCHANGED <<target_os, render_adapter, webview_surface, panicked, created,
                   log, pipeline_ready, views_left, drawn>>

\* render_prepare_webview with the early return of render.rs 82 lost: without
\* an extracted handle a surface is made for a default handle
render_prepare_webview_without_return ==
    /\ ~panicked
    /\ phase = "extract"
    /\ phase' = "prepare"
    /\ \E r \in AcquireResults :
          /\ created' = created + 1
          /\ log' = <<CreateSurface(IF extracted = None THEN "h1"
                                    ELSE Unwrap(extracted).handle),
                      GetCurrentTexture(r)>>
          /\ IF r = "Ok"
             THEN /\ webview_surface' = Some([texture |-> frame,
                                              format |-> "Rgba8UnormSrgb"])
                  /\ UNCHANGED panicked
             ELSE /\ panicked' = TRUE
                  /\ UNCHANGED webview_surface
    /\ \E views \in 0..MaxViews : views_left' = IF panicked' THEN 0 ELSE views
    /\ UNCHANGED <<target_os, render_adapter, frame, extracted, pipeline_ready, drawn>>

\* render.rs 77-93, scheduled in RenderSet::Prepare (render.rs 103); views:
\* the number of views the render graph runs the node for in this frame
render_prepare_webview ==
    /\ ~panicked
    /\ phase = "extract"
    /\ phase' = "prepare"
    /\ IF extracted = None
       THEN /\ log' = <<>>
            /\ UNCHANGED <<webview_surface, panicked, created>>
       ELSE \E r \in AcquireResults :
               /\ created' = created + 1
               /\ log' = <<CreateSurface(Unwrap(extracted).handle), GetCurrentTexture(r)>>
               /\ IF r = "Ok"
                  THEN /\ webview_surface' = Some([texture |-> frame,
                                                   format |-> "Rgba8UnormSrgb"])
                       /\ UNCHANGED panicked
                  ELSE /\ panicked' = TRUE
                       /\ UNCHANGED webview_surface
    /\ \E views \in 0..MaxViews : views_left' = IF panicked' THEN 0 ELSE views
    /\ UNCHANGED <<target_os, render_adapter, frame, extracted, pipeline_ready, drawn>>

\* WebviewSurface::create_view, render.rs 65-75
create_view(wvs) == [texture |-> wvs.texture, format |-> wvs.format, dimension |-> "D2"]

\* run with no ordering after the prepare step: the node may also run right
\* after extraction, on whatever WebviewSurface the render world then holds
run_before_prepare ==
    /\ ~panicked
    /\ \/ phase = "extract"
       \/ phase \in {"prepare", "draw"} /\ views_left > 0
    /\ views_left' = IF views_left > 0 THEN views_left - 1 ELSE 0
    /\ phase' = "draw"
    /\ IF webview_surface = None \/ ~pipeline_ready
       THEN UNCHANGED drawn
       ELSE drawn' = drawn \cup {[view |-> create_view(Unwrap(webview_surface)),
                                  frame |-> frame,
                                  pass |-> views_left]}
    /\ UNCHANGED <<target_os, render_adapter, frame, extracted, webview_surface,
                   panicked, created, log, pipeline_ready>>

\* WebviewNode::run, render.rs 137-190, once per view; a draw is recorded with
\* the view it made, its frame and the number of views still to run (which
\* tells the draws of one frame apart)
run ==
    /\ ~panicked
    /\ phase \in {"prepare", "draw"}
    /\ views_left > 0
    /\ views_left' = views_left - 1
    /\ phase' = "draw"
    /\ IF webview_surface = None \/ ~pipeline_ready
       THEN UNCHANGED drawn
       ELSE drawn' = drawn \cup {[view |-> create_view(Unwrap(webview_surface)),
                                  frame |-> frame,
                                  pass |-> views_left]}
    /\ UNCHANGED <<target_os, render_adapter, frame, extracted, webview_surface,
                   panicked, created, log, pipeline_ready>>

\* The pipeline queued by WebviewPipeline::from_world (render.rs 197-217)
\* finishes compiling
pipeline_compiled ==
    /\ ~panicked
    /\ ~pipeline_ready
    /\ pipeline_ready' = TRUE
    /\ UNCHANGED <<target_os, render_adapter, frame, phase, extracted,
                   webview_surface, panicked, created, log, views_left, drawn>>

-----------------------------------------------------------------------------
(* Specifications *)

Init ==
    /\ target_os \in TargetOs
    /\ render_adapter \in RenderAdapterNames
    /\ frame = 0
    /\ phase = "init"
    /\ extracted = None
    /\ webview_surface = None
    /\ panicked = FALSE
    /\ created = 0
    /\ log = <<>>
    /\ pipeline_ready = FALSE
    /\ views_left = 0
    /\ drawn = {}

NextBad == bad_render_extract \/ bad_render_prepare_webview

SpecBad == Init /\ [][NextBad]_vars

NextRender == render_extract \/ render_prepare_webview \/ run \/ pipeline_compiled

SpecRender == Init /\ [][NextRender]_vars

-----------------------------------------------------------------------------
(* The lifecycle states of the surface manager, read off the program state *)

\* The calls of one kind made by the latest prepare_webview, in order
Calls(op) == SelectSeq(log, LAMBDA c : c.op = op)

Acquisitions == Calls("get_current_texture")

Configurations == Calls("configure_surface")

\* The latest prepare_webview ran on a surface that existed before it
ReacquireFrame == phase = "prepare" /\ log # <<>> /\ log[1].op = "get_current_texture"

\* The latest prepare_webview created the surface
CreationFrame == phase = "prepare" /\ log # <<>> /\ log[1].op = "create_surface"

\* Unconfigured: no surface yet; Configured: a surface and no texture acquired
\* in this frame; FrameAcquired: a texture acquired in this frame is stored;
\* Failed: the process stopped
State ==
    IF panicked THEN "Failed"
    ELSE IF webview_surface = None THEN "Unconfigured"
    ELSE IF phase = "prepare" /\ Unwrap(webview_surface).texture = frame
    THEN "FrameAcquired"
    ELSE "Configured"

-----------------------------------------------------------------------------
(* Claims *)

\* C1: when the first acquisition attempt of a frame on an existing surface
\* fails with Outdated, prepare_webview makes exactly three native calls, in
\* this order: the failed acquisition, one configure_surface with the
\* configuration the surface had before the frame, one more acquisition; and
\* if that one succeeds the texture of this frame is stored and the state is
\* FrameAcquired.
C1_OutdatedReconfiguresThenRetriesOnce ==
    [][ ( /\ phase = "extract" /\ phase' = "prepare"
          /\ webview_surface # None
          /\ log' # <<>>
          /\ log'[1] = GetCurrentTexture("Outdated") )
        => /\ Len(log') = 3
           /\ log'[2] = ConfigureSurface(Unwrap(Unwrap(webview_surface).surface.config))
           /\ log'[3].op = "get_current_texture"
           /\ log'[3].result = "Ok"
                => /\ Unwrap(webview_surface').texture = frame'
                   /\ Unwrap(webview_surface').surface = Unwrap(webview_surface).surface
                   /\ State' = "FrameAcquired" ]_vars

C1_Witness ==
    /\ ReacquireFrame
    /\ log[1] = GetCurrentTexture("Outdated")
    /\ Len(log) = 3
    /\ log[3] = GetCurrentTexture("Ok")
    /\ State = "FrameAcquired"

\* C2: a prepare_webview that attempts acquisition makes at most two
\* attempts, a second one only after an Outdated first one; a failed second
\* attempt leaves the state Failed; and the step ends in FrameAcquired (the
\* last attempt succeeded), Configured (the only attempt timed out and the
\* frame is skipped) or Failed.
C2_AtMostTwoAttempts ==
    (phase = "prepare" /\ Acquisitions # <<>>)
    => /\ Len(Acquisitions) <= 2
       /\ Len(Acquisitions) = 2 => Acquisitions[1].result = "Outdated"
       /\ (Len(Acquisitions) = 2 /\ Acquisitions[2].result # "Ok") => State = "Failed"
       /\ State \in {"FrameAcquired", "Configured", "Failed"}
       /\ State = "FrameAcquired" => Acquisitions[Len(Acquisitions)].result = "Ok"
       /\ State = "Configured" => Acquisitions = <<GetCurrentTexture("Timeout")>>

C2_Witness ==
    /\ ReacquireFrame
    /\ Len(Acquisitions) = 2
    /\ Acquisitions[2].result = "Outdated"
    /\ State = "Failed"

\* The texture a WebviewSurface holds, if there is a WebviewSurface
HeldTexture ==
    IF webview_surface = None THEN None ELSE Some(Unwrap(webview_surface).texture)

\* A name on the vendor allow-list: it begins with AMD or with Intel
AllowListed(name) ==
    \/ Len(name) >= 3 /\ name[1] = "A" /\ name[2] = "M" /\ name[3] = "D"
    \/ /\ Len(name) >= 5
       /\ name[1] = "I" /\ name[2] = "n" /\ name[3] = "t" /\ name[4] = "e" /\ name[5] = "l"

\* The adapter names the latest prepare_webview enumerated (empty if it did not)
Enumerated ==
    IF Calls("enumerate_adapters") = <<>> THEN <<>>
    ELSE Calls("enumerate_adapters")[1].names

\* The latest prepare_webview met a Timeout recognized as spurious: linux
\* build, an enumerated adapter on the allow-list
SpuriousTimeoutFrame ==
    /\ ReacquireFrame
    /\ log[1] = GetCurrentTexture("Timeout")
    /\ target_os = "linux"
    /\ \E i \in 1..Len(Enumerated) : AllowListed(Enumerated[i])

\* No zero-sized window is involved: neither the extracted snapshot nor the
\* configuration of the surface has a zero dimension
ZeroFree ==
    /\ extracted # None
          => /\ Unwrap(extracted).window_data.physical_width > 0
             /\ Unwrap(extracted).window_data.physical_height > 0
    /\ webview_surface # None
          => /\ Unwrap(Unwrap(webview_surface).surface.config).width > 0
             /\ Unwrap(Unwrap(webview_surface).surface.config).height > 0

\* C3: in a frame whose acquisition reports a Timeout recognized as spurious
\* the process does not stop, the state remains Configured and no texture is
\* held for drawing (stated for windows of nonzero size).
C3_SpuriousTimeoutSkipsFrame ==
    (SpuriousTimeoutFrame /\ ZeroFree)
    => /\ ~panicked
       /\ State = "Configured"
       /\ HeldTexture = None

\* The part of C3 the code keeps: the process goes on, no texture of this
\* frame is stored, no configuration is applied.
C3_SpuriousTimeoutKeepsRunning ==
    SpuriousTimeoutFrame
    => /\ ~panicked
       /\ State = "Configured"
       /\ Configurations = <<>>
       /\ Len(Acquisitions) = 1

C5_SurfaceCreatedOnce == ~panicked => created <= 1

\* A window snapshot differs from a configuration in size or modes
Differs(window, config) ==
    \/ config.width # window.physical_width
    \/ config.height # window.physical_height
    \/ config.present_mode # present_mode_of(window.present_mode)
    \/ config.alpha_mode # alpha_mode_of(window.alpha_mode)

\* prepare_webview runs on a surface that exists, with a snapshot
PrepareOnSurface ==
    /\ phase = "extract" /\ phase' = "prepare"
    /\ webview_surface # None
    /\ extracted # None

\* C6: on an existing surface, a frame whose snapshot differs from the
\* last-applied configuration applies exactly one configuration, built from
\* the new snapshot and the format chosen at creation (stated for windows of
\* nonzero size and frames that do not stop the process).
C6_ChangedSnapshotReconfiguresOnce ==
    [][ ( /\ PrepareOnSurface
          /\ ZeroFree
          /\ ~panicked'
          /\ Differs(Unwrap(extracted).window_data,
                     Unwrap(Unwrap(webview_surface).surface.config)) )
        => Calls("configure_surface")' =
              <<ConfigureSurface(surface_configuration(Unwrap(webview_surface).format,
                                                       Unwrap(extracted).window_data))>> ]_vars

\* C7 as stated: on an existing surface, a frame whose snapshot equals the
\* last-applied configuration applies no configuration (stated for windows of
\* nonzero size and frames that do not stop the process).
C7_UnchangedSnapshotNeverConfigures ==
    [][ ( /\ PrepareOnSurface
          /\ ZeroFree
          /\ ~panicked'
          /\ ~Differs(Unwrap(extracted).window_data,
                      Unwrap(Unwrap(webview_surface).surface.config)) )
        => Calls("configure_surface")' = <<>> ]_vars

\* C7 amended: on an existing surface, a frame whose snapshot equals the
\* last-applied configuration applies no configuration, unless its first
\* acquisition attempt reports Outdated: then the last-applied configuration
\* is applied again, once, and the surface's configuration is unchanged.
C7_UnchangedSnapshotConfiguresOnlyOnOutdated ==
    [][ ( /\ PrepareOnSurface
          /\ ~Differs(Unwrap(extracted).window_data,
                      Unwrap(Unwrap(webview_surface).surface.config)) )
        => /\ Calls("configure_surface")' =
                 IF log'[1] = GetCurrentTexture("Outdated")
                 THEN <<ConfigureSurface(Unwrap(Unwrap(webview_surface).surface.config))>>
                 ELSE <<>>
           /\ Unwrap(webview_surface').surface = Unwrap(webview_surface).surface ]_vars

C7_Witness ==
    /\ ReacquireFrame
    /\ frame >= 2
    /\ log = <<GetCurrentTexture("Ok")>>
    /\ ~Differs(Unwrap(extracted).window_data,
                Unwrap(Unwrap(webview_surface).surface.config))
    /\ State = "FrameAcquired"

\* C8: at the start of every prepare phase no texture of an earlier frame is
\* held, and no texture is drawn to in two different frames.
C8_TextureOwnedForOneFrame ==
    /\ phase = "extract" => HeldTexture = None
    /\ \A d1 \in drawn, d2 \in drawn :
          d1.view.texture = d2.view.texture => d1.frame = d2.frame

\* C9: a frame whose first acquisition attempt reports Outdated (and whose
\* retry, if one is made, succeeds) or a Timeout recognized as spurious does
\* not stop the process, the frame that creates the surface included (stated
\* for windows of nonzero size).
C9_RecoverableErrorsNeverStop ==
    (phase = "prepare" /\ Acquisitions # <<>> /\ ZeroFree)
    => /\ ( /\ Acquisitions[1].result = "Outdated"
            /\ Len(Acquisitions) = 2 => Acquisitions[2].result = "Ok" ) => ~panicked
       /\ SpuriousTimeoutFrame => ~panicked

\* C10: no configuration with a zero width or height is applied to the
\* native surface (stated for a process that has not stopped).
C10_NoZeroSizedConfiguration ==
    ~panicked =>
    \A i \in 1..Len(Configurations) :
       /\ Configurations[i].config.width > 0
       /\ Configurations[i].config.height > 0

\* The formats the negotiator prefers
Preferred == {"Rgba8UnormSrgb", "Bgra8UnormSrgb"}

\* The latest prepare_webview created the surface and was offered a non-empty
\* capability set
NegotiatedFrame ==
    /\ CreationFrame
    /\ Len(log) >= 2
    /\ log[2].op = "get_capabilities"
    /\ log[2].formats # <<>>

\* C11: for every non-empty ordered capability set the format the surface is
\* configured with at creation is a member of the set: the first element, in
\* set order, that is Rgba8UnormSrgb or Bgra8UnormSrgb if there is one, else
\* the first element of the set; [Bgra8Unorm, Bgra8UnormSrgb] yields
\* Bgra8UnormSrgb; and it is the format the WebviewSurface records.
C11_NegotiatorPicksFirstPreferredElseFirst ==
    NegotiatedFrame
    => /\ Len(log) >= 3
       /\ log[3].op = "configure_surface"
       /\ LET formats == log[2].formats
              chosen == log[3].config.format
          IN /\ \E i \in 1..Len(formats) : formats[i] = chosen
             /\ IF \E i \in 1..Len(formats) : formats[i] \in Preferred
                THEN \E i \in 1..Len(formats) :
                        /\ formats[i] = chosen
                        /\ chosen \in Preferred
                        /\ \A j \in 1..(i - 1) : formats[j] \notin Preferred
                ELSE chosen = formats[1]
             /\ formats = <<"Bgra8Unorm", "Bgra8UnormSrgb">> => chosen = "Bgra8UnormSrgb"
             /\ ~panicked => Unwrap(webview_surface).format = chosen

C11_Witness ==
    /\ NegotiatedFrame
    /\ log[2].formats = <<"Bgra8Unorm", "Bgra8UnormSrgb">>
    /\ log[3].op = "configure_surface"
    /\ log[3].config.format = "Bgra8UnormSrgb"
    /\ ~panicked

\* The latest prepare_webview created the surface and was offered an empty
\* capability set
EmptyCapabilitiesFrame ==
    /\ CreationFrame
    /\ Len(log) >= 2
    /\ log[2] = GetCapabilities(<<>>)

\* C12: when the capability set of a new surface is empty the process stops:
\* the capability query is the last native call, so that no configuration is
\* applied and no texture acquired, no WebviewSurface (and so no format) is
\* stored, and the state is Failed, not Configured.
C12_EmptyCapabilitiesAreFatal ==
    EmptyCapabilitiesFrame
    => /\ panicked
       /\ Len(log) = 2
       /\ Configurations = <<>>
       /\ Acquisitions = <<>>
       /\ webview_surface = None
       /\ State = "Failed"

C12_Witness ==
    /\ EmptyCapabilitiesFrame
    /\ panicked
    /\ frame = 2

\* A gamma-corrected (sRGB) format
GammaCorrected(format) == format \in {"Rgba8UnormSrgb", "Bgra8UnormSrgb"}

\* The formats that have a gamma-corrected counterpart, with that counterpart
SrgbCounterparts ==
    {<<"Rgba8Unorm", "Rgba8UnormSrgb">>, <<"Bgra8Unorm", "Bgra8UnormSrgb">>}

\* C13: in every configuration applied to the surface the view-formats list is
\* empty if and only if the chosen format is gamma-corrected; otherwise it has
\* exactly one element, the gamma-corrected counterpart of the chosen format
\* (stated for frames that do not stop the process and windows of nonzero
\* size).
C13_ViewFormatsHoldSrgbCounterpart ==
    (~panicked /\ ZeroFree)
    => \A i \in 1..Len(Configurations) :
          LET config == Configurations[i].config IN
          /\ config.view_formats = <<>> <=> GammaCorrected(config.format)
          /\ ~GammaCorrected(config.format)
                => /\ Len(config.view_formats) = 1
                   /\ GammaCorrected(config.view_formats[1])
                   /\ <<config.format, config.view_formats[1]>> \in SrgbCounterparts

\* Where the chosen format has a counterpart the list is as C13 says
C13_ViewFormatsOfFormatsWithCounterpart ==
    \A i \in 1..Len(Configurations) :
       LET config == Configurations[i].config IN
       /\ config.view_formats = <<>> <=> GammaCorrected(config.format)
       /\ ~GammaCorrected(config.format)
             => /\ Len(config.view_formats) = 1
                /\ \/ <<config.format, config.view_formats[1]>> \in SrgbCounterparts
                   \/ /\ config.format \notin {p[1] : p \in SrgbCounterparts}
                      /\ config.view_formats[1] = config.format

\* C14: the capabilities are queried, and with them the format chosen, only
\* by a prepare_webview that creates the surface; once a WebviewSurface exists
\* no step removes it or changes the format it records or the format of the
\* configuration of its surface, whatever the later frames bring (new sizes,
\* new modes, Outdated recoveries, skipped frames).
C14_FormatFixedAtCreation ==
    [][ /\ (phase = "extract" /\ phase' = "prepare" /\ Calls("get_capabilities")' # <<>>)
              => (webview_surface = None /\ CreationFrame')
        /\ webview_surface # None
              => /\ webview_surface' # None
                 /\ Unwrap(webview_surface').format = Unwrap(webview_surface).format
                 /\ Unwrap(Unwrap(webview_surface').surface.config).format
                       = Unwrap(Unwrap(webview_surface).surface.config).format
                 /\ Unwrap(webview_surface').format
                       = Unwrap(Unwrap(webview_surface').surface.config).format
                 /\ \A i \in 1..Len(Configurations') :
                       Configurations'[i].config.format = Unwrap(webview_surface).format ]_vars

\* An Outdated recovery, after a resize, on a surface whose format is not the
\* one render.rs fixes
C14_Witness ==
    /\ ReacquireFrame
    /\ frame >= 2
    /\ log[1] = GetCurrentTexture("Outdated")
    /\ Len(log) = 3
    /\ log[3] = GetCurrentTexture("Ok")
    /\ ~panicked
    /\ Unwrap(webview_surface).format = "Bgra8Unorm"
    /\ Unwrap(extracted).window_data.physical_width
          # Unwrap(Unwrap(webview_surface).surface.config).width

\* C15: in a frame where the render world holds no ExtractedWebviewHandles
\* (no handle, no snapshot) prepare_webview does nothing: it makes no native
\* call (no surface created, configured or acquired from), it leaves the
\* WebviewSurface, the surface count, the process and the lifecycle state as
\* they were; and every run of the draw node in that frame draws nothing.
C15_NothingExtractedNothingDone ==
    [][ /\ (phase = "extract" /\ phase' = "prepare" /\ extracted = None)
              => /\ log' = <<>>
                 /\ UNCHANGED <<webview_surface, created, panicked>>
                 /\ State' = State
        /\ (extracted = None /\ phase' = "draw") => drawn' = drawn ]_vars

\* The draw node ran, with its pipeline ready, in a frame without
\* ExtractedWebviewHandles
C15_Witness ==
    /\ extracted = None
    /\ frame = 2
    /\ phase = "draw"
    /\ views_left = 0
    /\ pipeline_ready
    /\ log = <<>>
    /\ drawn = {}

\* C16: every view the draw node makes over the acquired texture has the
\* format of the configuration last applied to the surface of its frame (the
\* format chosen from the capability set), and a drawn frame has exactly one
\* view made for it (stated for frames that do not stop the process).
C16_ViewHasConfiguredFormatOncePerFrame ==
    ~panicked
    => \A d \in drawn :
          /\ d.frame = frame
                => /\ Configurations # <<>>
                   /\ Configurations[Len(Configurations)].config.format = d.view.format
          /\ Cardinality({e \in drawn : e.frame = d.frame}) = 1

\* The second half of C16 alone: one view per drawn frame
C16_OneViewPerDrawnFrame ==
    \A d \in drawn : Cardinality({e \in drawn : e.frame = d.frame}) = 1

\* What does hold of the views of render.rs: each has the format fixed at
\* render.rs 91 and is made over the texture held when the node runs
C16_ViewHasFixedFormat ==
    \A d \in drawn : d.view.format = "Rgba8UnormSrgb" /\ d.view.dimension = "D2"

\* The phase changes of a frame: extraction opens it, prepare follows, the
\* draws follow prepare, and the next extraction follows the last of them
PhaseOrder ==
    { <<"init", "extract">>, <<"extract", "prepare">>, <<"prepare", "draw">>,
      <<"prepare", "extract">>, <<"draw", "extract">> }

\* C17: in every frame extraction, prepare and draw run in this order and
\* never interleave: a frame begins with its extraction, after every draw of
\* the frame before; the ExtractedWebviewHandles change in extraction only, so
\* that prepare reads what the extraction of its own frame left, and its
\* surface is made for that handle; the WebviewSurface changes in prepare
\* only; and every draw is made after the prepare of its frame, over the
\* texture that prepare acquired.
C17_PhasesRunInOrder ==
    [][ /\ phase' # phase => <<phase, phase'>> \in PhaseOrder
        /\ frame' # frame
              => (frame' = frame + 1 /\ phase' = "extract" /\ views_left = 0)
        /\ extracted' # extracted => (phase' = "extract" /\ frame' = frame + 1)
        /\ (phase = "extract" /\ phase' # phase)
              => /\ phase' = "prepare"
                 /\ UNCHANGED <<frame, extracted, drawn>>
                 /\ log' # <<>> => log'[1] = CreateSurface(Unwrap(extracted).handle)
        /\ webview_surface' # webview_surface
              => (phase = "extract" /\ phase' = "prepare")
        /\ drawn' # drawn
              => /\ phase \in {"prepare", "draw"}
                 /\ phase' = "draw"
                 /\ UNCHANGED <<frame, extracted, webview_surface>>
                 /\ \A d \in drawn' \ drawn :
                       d.frame = frame /\ d.view.texture = frame ]_vars

\* Two frames drawn, each over the texture of its own prepare step
C17_Witness ==
    /\ phase = "draw"
    /\ frame = 2
    /\ \E d \in drawn : d.frame = 1 /\ d.view.texture = 1
    /\ \E d \in drawn : d.frame = 2 /\ d.view.texture = 2

\* The latest prepare_webview met a fatal presentation error: a new surface
\* without capabilities, or a last acquisition attempt that failed and is not
\* a Timeout recognized as spurious
FatalRaised ==
    /\ phase = "prepare"
    /\ \/ EmptyCapabilitiesFrame
       \/ /\ Acquisitions # <<>>
          /\ Acquisitions[Len(Acquisitions)].result # "Ok"
          /\ ~SpuriousTimeoutFrame

\* C18: Failed is terminal: a fatal presentation error leaves the state
\* Failed, and from then on no step is taken at all: nothing is configured,
\* acquired or drawn, and the state stays Failed.
C18_FailedIsTerminal ==
    [][ /\ FatalRaised' => State' = "Failed"
        /\ (FatalRaised \/ State = "Failed") => UNCHANGED vars ]_vars

\* A fatal error of a cited kind (the catch-all arm, or the retry after
\* Outdated), raised with frames still to come
C18_Witness ==
    /\ FatalRaised
    /\ State = "Failed"
    /\ ReacquireFrame
    /\ frame = 2
    /\ \/ log = <<GetCurrentTexture("Lost")>>
       \/ Len(log) = 3 /\ log[3] = GetCurrentTexture("Timeout")

\* C19: in bad_render.rs a prepare_webview applies a configuration to the
\* native surface in two situations only, and then exactly once: when it
\* creates the surface (and capabilities are on offer), and when its first
\* acquisition attempt on the existing surface returned Outdated; when the
\* first attempt succeeds, times out or fails otherwise it applies none; so
\* no frame has more than one configure call.
C19_ConfiguresOnlyAtCreationAndOnOutdated ==
    phase = "prepare"
    => /\ Len(Configurations) <= 1
       /\ Configurations # <<>>
             => \/ CreationFrame
                \/ ReacquireFrame /\ log[1] = GetCurrentTexture("Outdated")
       /\ NegotiatedFrame => Len(Configurations) = 1
       /\ (ReacquireFrame /\ log[1] = GetCurrentTexture("Outdated"))
             => Len(Configurations) = 1
       /\ (ReacquireFrame /\ log[1] # GetCurrentTexture("Outdated"))
             => Configurations = <<>>

\* A first attempt that succeeds on a surface whose window has been resized:
\* no configuration is applied
C19_Witness ==
    /\ ReacquireFrame
    /\ log = <<GetCurrentTexture("Ok")>>
    /\ Unwrap(extracted).window_data.physical_width
          # Unwrap(Unwrap(webview_surface).surface.config).width
    /\ Configurations = <<>>

\* C20: extraction replaces the ExtractedWebviewHandles of the render world
\* only when the main world has both the webview handle and exactly one
\* primary window, and then with that handle and a copy of that window; with
\* no handle, no primary window or several, it leaves the resource as it was.
\* No step removes the resource and only extraction, at the start of a frame,
\* changes it; so once an extraction has succeeded every later prepare_webview
\* finds a handle and a snapshot and acts on them.
C20_ExtractionReplacesOrKeeps ==
    [][ /\ \A handles \in Option(Handles), primary_window \in PrimaryWindows :
              /\ (handles # None /\ Len(primary_window) = 1)
                    => extract(handles, primary_window)
                          = Some([handle |-> handles[1],
                                  window_data |-> primary_window[1]])
              /\ (handles = None \/ Len(primary_window) = 0 \/ Len(primary_window) > 1)
                    => extract(handles, primary_window) = extracted
        /\ extracted' # extracted => (phase' = "extract" /\ frame' = frame + 1)
        /\ extracted # None => extracted' # None
        /\ (extracted # None /\ phase = "extract" /\ phase' = "prepare")
              => /\ log' # <<>>
                 /\ log'[1] = CreateSurface(Unwrap(extracted).handle) ]_vars

\* A prepare_webview that acts on extracted handles in the last frame, after
\* extractions that either replaced or kept them
C20_Witness ==
    /\ frame = MaxFrames
    /\ phase = "prepare"
    /\ extracted # None
    /\ created = MaxFrames
    /\ log # <<>>
    /\ log[1] = CreateSurface(Unwrap(extracted).handle)

=============================================================================
